---- MODULE Spec2Model ----
(***************************************************************************)
(* Model of stedi_tool.py: the "Start Onboarding Process" handler, i.e.    *)
(* pre-flight validation, the provider-list parser and the sequential      *)
(* batch loop over the four remote operations.  Text is modelled as a      *)
(* sequence of one-character strings so that strip/split are computed as   *)
(* the code computes them.  Every action is a maximal stretch of the       *)
(* handler containing one remote call; the response of that call is the    *)
(* action's input.                                                         *)
(***************************************************************************)
EXTENDS Integers, Sequences, FiniteSets, TLC

VARIABLES
  pc,                   \* position of the handler
  api_key, payer_id, user_email, selected_transactions, contact_details,
  provider_data_input, tax_id_type,          \* widget values read at the click
  providers_to_process, \* line 152
  i,                    \* loop index of line 160 (0-based, as in the source)
  provider_id, provider_status, enrollment_status, details,  \* loop locals
  summary_data,         \* line 158
  request_failed,       \* operations of the current record whose HTTP request raised
                        \* RequestException (caught at lines 24, 43, 64, 87)
  events,               \* everything the run emits, in order: UI calls and remote calls
  remote,               \* what the enrollment service holds: registered NPIs, enrolled pairs
  run                   \* which execution of the handler this is

vars == <<pc, api_key, payer_id, user_email, selected_transactions,
          contact_details, provider_data_input, tax_id_type,
          providers_to_process, i, provider_id, provider_status,
          enrollment_status, details, summary_data, request_failed, events,
          remote, run>>

\* the world outside the script run
world == <<remote, run>>

\* ---------------------------------------------------------------- bounds
MaxLines == 2       \* lines typed into the provider list

\* ---------------------------------------------------------------- values
NoneV == "<None>"          \* Python None
Unbound == "<unbound>"     \* a name that was annotated but never assigned

\* Python truthiness of an optional string (lines 171, 189)
Truthy(x) == x # NoneV /\ x # ""

\* ---------------------------------------------------------------- text
Whitespace == {" ", "\n"}
Delims == {";", ","}

RECURSIVE LStrip(_)
LStrip(s) == IF s # <<>> /\ Head(s) \in Whitespace THEN LStrip(Tail(s)) ELSE s

RECURSIVE RStrip(_)
RStrip(s) ==
  IF s # <<>> /\ s[Len(s)] \in Whitespace THEN RStrip(SubSeq(s, 1, Len(s) - 1)) ELSE s

\* str.strip()
Strip(s) == RStrip(LStrip(s))

\* position of the first character of s that is in set D, 0 if none
FirstIn(s, D) ==
  IF \E j \in 1..Len(s) : s[j] \in D
    THEN CHOOSE j \in 1..Len(s) : s[j] \in D /\ \A k \in 1..(j - 1) : s[k] \notin D
    ELSE 0

\* str.split('\n')
RECURSIVE SplitNewline(_)
SplitNewline(s) ==
  LET j == FirstIn(s, {"\n"}) IN
  IF j = 0 THEN <<s>>
  ELSE <<SubSeq(s, 1, j - 1)>> \o SplitNewline(SubSeq(s, j + 1, Len(s)))

\* re.split(r'[;,]', s, maxsplit) for maxsplit > 0: at most maxsplit splits,
\* the remainder of the string is the last element
RECURSIVE ReSplit(_, _)
ReSplit(s, maxsplit) ==
  LET j == FirstIn(s, Delims) IN
  IF maxsplit = 0 \/ j = 0 THEN <<s>>
  ELSE <<SubSeq(s, 1, j - 1)>> \o ReSplit(SubSeq(s, j + 1, Len(s)), maxsplit - 1)

\* the condition of the comprehension of line 152
LineAccepted(line) == Strip(line) # <<>> /\ Len(ReSplit(Strip(line), 2)) = 3

\* the dict built by the comprehension of line 152
ProviderOf(line, tt) ==
  LET parts == ReSplit(Strip(line), 2) IN
  [name |-> Strip(parts[1]), npi |-> Strip(parts[2]),
   taxId |-> Strip(parts[3]), taxIdType |-> tt]

RECURSIVE Comprehension(_, _)
Comprehension(lines, tt) ==
  IF lines = <<>> THEN <<>>
  ELSE (IF LineAccepted(Head(lines)) THEN <<ProviderOf(Head(lines), tt)>> ELSE <<>>)
       \o Comprehension(Tail(lines), tt)

\* lines 151-152
Lines(text) == SplitNewline(Strip(text))
ParseProviders(text, tt) == Comprehension(Lines(text), tt)


\* ---------------------------------------------------------------- inputs
\* the form (lines 107-142); each widget value is drawn from a small set
ApiKeys == {"", "key"}
PayerIds == {"", "PAYER"}
Emails == {"", "me@example.com"}
TaxIdTypes == {"EIN"}      \* the radio of line 142 left at its first option

\* lines 117-121, in dict order
transaction_options ==
  <<"claimPayment", "professionalClaimSubmission", "eligibilityCheck",
    "claimStatus", "institutionalClaimSubmission", "dentalClaimSubmission">>

\* lines 123-126: the codes whose checkbox is ticked, in catalog order
RECURSIVE SelectFrom(_, _, _)
SelectFrom(opts, k, ticked) ==
  IF k > Len(opts) THEN <<>>
  ELSE (IF k \in ticked THEN <<opts[k]>> ELSE <<>>) \o SelectFrom(opts, k + 1, ticked)

Selected(ticked) == SelectFrom(transaction_options, 1, ticked)
TickedSamples == {{}, {1}, {1, 3}}

\* lines 131-138 and 146
ContactFields ==
  {"firstName", "lastName", "email", "phone", "streetAddress1", "city", "state", "zipCode"}
DefaultContact ==
  [firstName |-> "John", lastName |-> "Doe", email |-> "john.doe@example.com",
   phone |-> "555-555-5555", streetAddress1 |-> "123 Main St", city |-> "Anytown",
   state |-> "CA", zipCode |-> "12345"]
\* the defaults, the defaults with one field cleared, and everything cleared
ContactSamples ==
  {DefaultContact, [f \in ContactFields |-> ""]}
  \cup {[DefaultContact EXCEPT ![f] = ""] : f \in ContactFields}

\* sample lines of the provider list
LineFull == <<"A", ",", " ", "1", ";", "5", ",", "6">>   \* "A, 1;5,6"
LineTwoFields == <<"B", "a", "d", ",", "F">>              \* "Bad,F"
LineBlank == <<" ">>
LineEmptyNpi == <<"C", ",", ",", "7">>                    \* "C,,7"
SampleLines == {LineFull, LineTwoFields, LineBlank, LineEmptyNpi}

RECURSIVE JoinNewline(_)
JoinNewline(ls) ==
  IF ls = <<>> THEN <<>>
  ELSE IF Len(ls) = 1 THEN ls[1]
  ELSE ls[1] \o <<"\n">> \o JoinNewline(Tail(ls))

Texts == UNION {{JoinNewline(ls) : ls \in [1..n -> SampleLines]} : n \in 0..MaxLines}

\* ---------------------------------------------------------------- pre-flight
\* line 148 (negated): all([...]) and all(contact.values()) and selected
PreflightOk_NoSelectionCheck(k, p, e, txt, c, sel) ==
  /\ k # "" /\ p # "" /\ e # "" /\ txt # <<>>
  /\ \A f \in ContactFields : c[f] # ""
PreflightOk(k, p, e, txt, c, sel) ==
  /\ k # "" /\ p # "" /\ e # "" /\ txt # <<>>
  /\ \A f \in ContactFields : c[f] # ""
  /\ sel # <<>>

\* ---------------------------------------------------------------- events
UI(op, idx, arg) ==
  [type |-> "ui", op |-> op, i |-> idx, arg |-> arg, res |-> NoneV]
\* a remote operation called for record idx with arguments arg, returning res
Call(op, idx, arg, res) ==
  [type |-> "call", op |-> op, i |-> idx, arg |-> arg, res |-> res]

\* line 161; idx is the loop index i, n the number of providers
ProgressEvent_OffByOne(idx, n, provider) == UI("progress", idx, <<idx + 2, n, provider.name>>)
ProgressEvent(idx, n, provider) == UI("progress", idx, <<idx + 1, n, provider.name>>)
\* line 164
ProcessingEvent(idx, provider) == UI("markdown", idx, <<provider.name, provider.npi>>)

\* ---------------------------------------------------------------- Init
\* the script's own state before the button is clicked
InitScript ==
  /\ pc = "idle"
  /\ api_key = "" /\ payer_id = "" /\ user_email = ""
  /\ selected_transactions = Selected({1})
  /\ contact_details = DefaultContact
  /\ provider_data_input = <<>>
  /\ tax_id_type = "EIN"
  /\ providers_to_process = <<>>
  /\ i = 0
  /\ provider_id = Unbound /\ provider_status = Unbound
  /\ enrollment_status = Unbound /\ details = Unbound
  /\ summary_data = <<>>
  /\ request_failed = {}
  /\ events = <<>>

EmptyRemote == [providers |-> {}, enrollments |-> {}]

Init == InitScript /\ remote = EmptyRemote /\ run = "first"

\* ---------------------------------------------------------------- Start
\* lines 145-158: the click on "Start Onboarding Process" with the form as filled
StartWith(k, p, e, c, sel, txt, tt) ==
  /\ api_key' = k /\ payer_id' = p /\ user_email' = e
  /\ contact_details' = c /\ selected_transactions' = sel
  /\ provider_data_input' = txt /\ tax_id_type' = tt
  /\ IF ~PreflightOk(k, p, e, txt, c, sel)
       THEN /\ events' = <<UI("st.error", 0, "fill in all fields")>>
            /\ pc' = "rejected"
            /\ providers_to_process' = <<>>
       ELSE LET provs == ParseProviders(txt, tt) IN
            /\ providers_to_process' = provs
            /\ IF provs # <<>>
                 THEN /\ events' = <<UI("st.info", 0, Len(provs)),
                                     UI("progress_start", 0, <<0>>)>>
                      /\ pc' = "find_provider"
                 ELSE /\ events' = <<>>
                      /\ pc' = "no_providers"

Start ==
  /\ pc = "idle"
  /\ \E k \in ApiKeys, p \in PayerIds, e \in Emails, c \in ContactSamples,
        t \in TickedSamples, txt \in Texts, tt \in TaxIdTypes :
       StartWith(k, p, e, c, Selected(t), txt, tt)
  /\ UNCHANGED <<i, provider_id, provider_status, enrollment_status, details,
                 summary_data, request_failed, world>>


\* ---------------------------------------------------------------- remote service
MaxItems == 2       \* items in one search response

FoundIds == {"P1"}          \* ids the provider search returns
CreatedIds == {"P2"}        \* ids POST /providers returns
EnrollmentIds == {"E1"}     \* ids POST /enrollments returns
OtherNpi == <<"9">>         \* an NPI the service may return instead of the queried one

\* GET /providers: the request raises, or the body has an "items" list
\* (an item with the queried NPI, with or without an id, or an item with another NPI)
ItemsFor(npi) ==
  {[id |-> d, npi |-> npi] : d \in FoundIds \cup {NoneV}}
  \cup {[id |-> d, npi |-> OtherNpi] : d \in FoundIds}
ProviderSearchResponses(npi) ==
  {[ok |-> FALSE, items |-> <<>>]}
  \cup UNION {{[ok |-> TRUE, items |-> its] : its \in [1..n -> ItemsFor(npi)]} : n \in 0..MaxItems}

\* GET /enrollments
EnrollmentSearchResponses ==
  {[ok |-> FALSE, items |-> <<>>]}
  \cup {[ok |-> TRUE, items |-> [k \in 1..n |-> "enrollment"]] : n \in 0..MaxItems}

\* POST: 2xx with a JSON object (with or without "id"), or a RequestException
\* with no response, with a JSON body (with or without "message") or with a
\* body that is not JSON
PostFailure(has_response, is_json, has_message) ==
  [ok |-> FALSE, id |-> NoneV, has_response |-> has_response, is_json |-> is_json,
   has_message |-> has_message,
   message |-> IF has_message THEN "invalid request" ELSE NoneV,
   text |-> IF has_response THEN "raw error body" ELSE NoneV,
   exc |-> IF has_response THEN "400 Client Error" ELSE "connection refused"]
PostResponses(ids) ==
  {[ok |-> TRUE, id |-> d, has_response |-> TRUE, is_json |-> TRUE,
    has_message |-> FALSE, message |-> NoneV, text |-> "body", exc |-> NoneV]
     : d \in ids \cup {NoneV}}
  \cup {PostFailure(FALSE, FALSE, FALSE), PostFailure(TRUE, FALSE, FALSE),
        PostFailure(TRUE, TRUE, FALSE), PostFailure(TRUE, TRUE, TRUE)}

\* lines 16-25
find_existing_provider_NoNpiCheck(resp, npi) ==
  IF ~resp.ok THEN NoneV
  ELSE IF resp.items # <<>> THEN resp.items[1].id
  ELSE NoneV
find_existing_provider(resp, npi) ==
  IF ~resp.ok THEN NoneV
  ELSE IF resp.items # <<>> /\ resp.items[1].npi = npi THEN resp.items[1].id
  ELSE NoneV

\* lines 59-65
find_existing_enrollment_FailClosed(resp) ==
  IF ~resp.ok THEN TRUE ELSE resp.items # <<>>
find_existing_enrollment(resp) ==
  IF ~resp.ok THEN FALSE ELSE resp.items # <<>>

\* lines 44-50
ErrorMessage_TransportOnly(resp) == resp.exc
ErrorMessage(resp) ==
  IF resp.has_response
    THEN IF resp.is_json
           THEN (IF resp.has_message THEN resp.message ELSE resp.text)
           ELSE resp.text
    ELSE resp.exc

\* lines 39-51 and 83-95: the dict returned by both mutation functions
MutationResult(resp) ==
  IF resp.ok THEN [success |-> TRUE, id |-> resp.id, error |-> NoneV]
  ELSE [success |-> FALSE, id |-> NoneV, error |-> ErrorMessage(resp)]

\* ---------------------------------------------------------------- batch loop
Provider == providers_to_process[i + 1]

\* line 171
ProviderFound_Inverted(pid) == ~Truthy(pid)
ProviderFound(pid) == Truthy(pid)
\* line 190
EnrollmentExists_Inverted(found) == ~found
EnrollmentExists(found) == found

\* line 186: the row of a failed provider creation
CreateFailedRow_WrongStatus(provider, error_msg) ==
  <<provider.name, provider.npi, "Error", "Error", error_msg>>
CreateFailedRow(provider, error_msg) ==
  <<provider.name, provider.npi, "Error", "Skipped", error_msg>>
\* lines 186-187: summary_data after the append that precedes `continue`
RowsAfterCreateFailure_NoAppend(rows, provider, error_msg) == rows
RowsAfterCreateFailure(rows, provider, error_msg) ==
  Append(rows, CreateFailedRow(provider, error_msg))
\* line 206
Row_SwappedStatus(provider, ps, es, d) == <<provider.name, provider.npi, es, ps, d>>
Row(provider, ps, es, d) == <<provider.name, provider.npi, ps, es, d>>

\* lines 208-211
SummaryEvents(rows) ==
  <<UI("header", 0, "Process Complete!"), UI("subheader", 0, "Summary Report"),
    UI("dataframe", 0, rows)>>

\* line 160: enumerate() hands out the next index
NextIndex_Stuck(idx) == idx
NextIndex(idx) == idx + 1

\* the end of one iteration of the loop of line 160 with the rows as they are
\* now: the next iteration, or the code after the loop
EndOfIteration(rows, evs) ==
  /\ summary_data' = rows
  /\ i' = NextIndex(i)
  /\ IF NextIndex(i) = Len(providers_to_process)
       THEN pc' = "done" /\ events' = evs \o SummaryEvents(rows)
       ELSE pc' = "find_provider" /\ events' = evs

\* line 206: reading a name that was never assigned raises NameError, which
\* nothing catches; the script run ends there
AppendRow(ps, es, d, evs) ==
  IF es = Unbound \/ d = Unbound
    THEN /\ pc' = "crashed"
         /\ events' = evs \o <<UI("exception", i, "NameError")>>
         /\ UNCHANGED <<summary_data, i>>
    ELSE EndOfIteration(Append(summary_data, Row(Provider, ps, es, d)), evs)

\* the except clauses of lines 24, 43, 64 and 87: the request of op raised
Raised(op, resp, before) == IF resp.ok THEN before ELSE before \cup {op}

inputs == <<api_key, payer_id, user_email, selected_transactions, contact_details,
            provider_data_input, tax_id_type, providers_to_process>>

\* lines 161-175: progress, the provider lookup and its branch, for the
\* HTTP outcome resp
FindProviderWith(resp) ==
  /\ pc = "find_provider"
  /\ LET pid == find_existing_provider(resp, Provider.npi)
         evs == events \o <<ProgressEvent(i, Len(providers_to_process), Provider),
                            ProcessingEvent(i, Provider),
                            Call("find_existing_provider", i, <<api_key, Provider.npi>>,
                                 pid)>>
     IN /\ provider_id' = pid
        /\ request_failed' = Raised("find_existing_provider", resp, {})
        /\ IF ProviderFound(pid)
             THEN /\ events' = evs \o <<UI("st.info", i, pid)>>
                  /\ provider_status' = "Found"
                  /\ pc' = "find_enrollment"
             ELSE /\ events' = evs
                  /\ provider_status' = provider_status
                  /\ pc' = "create_provider"
  /\ UNCHANGED <<inputs, i, enrollment_status, details, summary_data>>

FindProvider ==
  /\ pc = "find_provider"
  /\ \E resp \in ProviderSearchResponses(Provider.npi) : FindProviderWith(resp)
  /\ UNCHANGED world

\* lines 176-189: provider creation; on failure the row and `continue`, on
\* success the test of line 189, which skips to line 206 when the id is falsy
CreateProviderWith(resp) ==
  /\ pc = "create_provider"
  /\ LET create_response == MutationResult(resp)
         call == Call("create_stedi_provider", i, <<api_key, Provider, contact_details>>,
                      create_response)
         ok == UI("st.success", i, create_response.id)
     IN /\ request_failed' = Raised("create_stedi_provider", resp, request_failed)
        /\ IF create_response.success
             THEN /\ provider_id' = create_response.id
                  /\ provider_status' = "Created"
                  /\ IF Truthy(create_response.id)
                       THEN /\ pc' = "find_enrollment"
                            /\ events' = events \o <<call, ok>>
                            /\ UNCHANGED <<summary_data, i>>
                       ELSE AppendRow("Created", enrollment_status, details,
                                      events \o <<call, ok>>)
             ELSE /\ UNCHANGED <<provider_id, provider_status>>
                  /\ EndOfIteration(
                       RowsAfterCreateFailure(summary_data, Provider, create_response.error),
                       events \o <<call, UI("st.error", i, create_response.error)>>)
  /\ UNCHANGED <<inputs, enrollment_status, details>>

CreateProvider ==
  /\ pc = "create_provider"
  /\ \E resp \in PostResponses(CreatedIds) : CreateProviderWith(resp)
  /\ UNCHANGED world

\* lines 190-193 and 206: the enrollment lookup
FindEnrollmentWith(resp) ==
  /\ pc = "find_enrollment"
  /\ LET found == find_existing_enrollment(resp)
         call == Call("find_existing_enrollment", i, <<api_key, Provider.npi, payer_id>>,
                      found)
     IN /\ request_failed' = Raised("find_existing_enrollment", resp, request_failed)
        /\ IF EnrollmentExists(found)
             THEN /\ enrollment_status' = "Skipped (Exists)"
                  /\ details' = "N/A"
                  /\ AppendRow(provider_status, "Skipped (Exists)", "N/A",
                               events \o <<call, UI("st.warning", i, "Enrollment already exists")>>)
             ELSE /\ pc' = "create_enrollment"
                  /\ events' = events \o <<call>>
                  /\ UNCHANGED <<enrollment_status, details, summary_data, i>>
  /\ UNCHANGED <<inputs, provider_id, provider_status>>

FindEnrollment ==
  /\ pc = "find_enrollment"
  /\ \E resp \in EnrollmentSearchResponses : FindEnrollmentWith(resp)
  /\ UNCHANGED world

\* lines 195-206: the enrollment creation and the row
CreateEnrollmentWith(resp) ==
  /\ pc = "create_enrollment"
  /\ LET enroll_response == MutationResult(resp)
         call == Call("create_stedi_enrollment", i,
                      <<api_key, provider_id, payer_id, user_email, contact_details,
                        selected_transactions>>,
                      enroll_response)
         es == IF enroll_response.success THEN "Submitted" ELSE "Error"
         d == IF enroll_response.success THEN enroll_response.id ELSE enroll_response.error
         msg == IF enroll_response.success THEN UI("st.success", i, d) ELSE UI("st.error", i, d)
     IN /\ request_failed' = Raised("create_stedi_enrollment", resp, request_failed)
        /\ enrollment_status' = es
        /\ details' = d
        /\ AppendRow(provider_status, es, d, events \o <<call, msg>>)
  /\ UNCHANGED <<inputs, provider_id, provider_status>>

CreateEnrollment ==
  /\ pc = "create_enrollment"
  /\ \E resp \in PostResponses(EnrollmentIds) : CreateEnrollmentWith(resp)
  /\ UNCHANGED world

Next == Start \/ FindProvider \/ CreateProvider \/ FindEnrollment \/ CreateEnrollment

Spec == Init /\ [][Next]_vars


\* ---------------------------------------------------------------- the client functions alone
\* The four functions of lines 10-95 called once, outside the batch loop, on
\* a wider range of HTTP outcomes than the loop is run with.

QueryNpis == {<<"1">>, <<"1", "2">>}
ClientItemIds == {"P1", "P2", NoneV}
ClientItems == {[id |-> d, npi |-> n] : d \in ClientItemIds, n \in QueryNpis \cup {OtherNpi}}
ClientProviderSearchResponses ==
  {[ok |-> FALSE, items |-> <<>>]}
  \cup UNION {{[ok |-> TRUE, items |-> its] : its \in [1..n -> ClientItems]} : n \in 0..MaxItems}

ClientPostResponses ==
  {[ok |-> TRUE, id |-> d, has_response |-> TRUE, is_json |-> TRUE,
    has_message |-> FALSE, message |-> NoneV, text |-> "body", exc |-> NoneV]
     : d \in {"P2", "E1", NoneV}}
  \cup {[ok |-> FALSE, id |-> NoneV, has_response |-> FALSE, is_json |-> FALSE,
         has_message |-> FALSE, message |-> NoneV, text |-> NoneV, exc |-> x]
          : x \in {"connection refused", "read timed out"}}
  \cup {[ok |-> FALSE, id |-> NoneV, has_response |-> TRUE, is_json |-> j,
         has_message |-> FALSE, message |-> NoneV, text |-> t, exc |-> x]
          : j \in BOOLEAN, t \in {"raw error body", ""},
            x \in {"400 Client Error", "500 Server Error"}}
  \cup {[ok |-> FALSE, id |-> NoneV, has_response |-> TRUE, is_json |-> TRUE,
         has_message |-> TRUE, message |-> m, text |-> t, exc |-> x]
          : m \in {"invalid request", "npi already registered"},
            t \in {"raw error body", ""},
            x \in {"400 Client Error", "500 Server Error"}}

\* one call of a client function: the query, the HTTP outcome, the value returned
Http(op, query, resp, res) ==
  [type |-> "http", op |-> op, i |-> 0, arg |-> query, response |-> resp, res |-> res]

\* lines 10-25
ClientFindProvider ==
  /\ pc = "idle"
  /\ \E npi \in QueryNpis, resp \in ClientProviderSearchResponses :
       events' = <<Http("find_existing_provider", npi, resp,
                        find_existing_provider(resp, npi))>>
  /\ pc' = "returned"
  /\ UNCHANGED <<inputs, i, provider_id, provider_status, enrollment_status, details,
                 summary_data, request_failed, world>>

\* lines 53-65
ClientFindEnrollment ==
  /\ pc = "idle"
  /\ \E npi \in QueryNpis, resp \in EnrollmentSearchResponses :
       events' = <<Http("find_existing_enrollment", npi, resp,
                        find_existing_enrollment(resp))>>
  /\ pc' = "returned"
  /\ UNCHANGED <<inputs, i, provider_id, provider_status, enrollment_status, details,
                 summary_data, request_failed, world>>

\* lines 27-51 and 67-95
ClientMutation ==
  /\ pc = "idle"
  /\ \E op \in {"create_stedi_provider", "create_stedi_enrollment"},
        resp \in ClientPostResponses :
       events' = <<Http(op, NoneV, resp, MutationResult(resp))>>
  /\ pc' = "returned"
  /\ UNCHANGED <<inputs, i, provider_id, provider_status, enrollment_status, details,
                 summary_data, request_failed, world>>

ClientNext == ClientFindProvider \/ ClientFindEnrollment \/ ClientMutation

ClientSpec == Init /\ [][ClientNext]_vars

\* ================================================================ properties
\* positions of the remote calls of operation op made for record idx (0-based)
CallsOf(op, idx) ==
  {k \in 1..Len(events) :
     events[k].type = "call" /\ events[k].op = op /\ events[k].i = idx}
IsCall(k, op) == events[k].type = "call" /\ events[k].op = op
HasRow(idx) == Len(summary_data) >= idx + 1
RowOf(idx) == summary_data[idx + 1]
NumProviders == Len(providers_to_process)

\* C1: when the run completes, the result sequence has exactly one row per
\* provider record and the k-th row carries the name and NPI of the k-th
\* record, whatever the remote outcomes were.
C1_OneRowPerRecordInOrder ==
  pc = "done" =>
    /\ Len(summary_data) = NumProviders
    /\ \A k \in 1..NumProviders :
         /\ summary_data[k][1] = providers_to_process[k].name
         /\ summary_data[k][2] = providers_to_process[k].npi

\* a completed run over two different records, the first failing at provider
\* creation and the second enrolled
C1_Witness ==
  /\ pc = "done" /\ NumProviders = 2
  /\ providers_to_process[1].name # providers_to_process[2].name
  /\ summary_data[1][3] = "Error" /\ summary_data[2][4] = "Submitted"

\* C2: if createProvider fails for a record, its row is (name, npi, Error,
\* Skipped, <the creation error message>) and neither enrollment operation
\* is invoked for that record.
C2_CreateFailureSkipsEnrollment ==
  \A k \in 1..Len(events) :
    (IsCall(k, "create_stedi_provider") /\ ~events[k].res.success) =>
      LET idx == events[k].i IN
      /\ HasRow(idx)
      /\ RowOf(idx) = <<providers_to_process[idx + 1].name,
                        providers_to_process[idx + 1].npi,
                        "Error", "Skipped", events[k].res.error>>
      /\ CallsOf("find_existing_enrollment", idx) = {}
      /\ CallsOf("create_stedi_enrollment", idx) = {}

\* a completed two-record run whose first record failed at provider creation
\* with the service's JSON message and whose second record went on to enroll
C2_Witness ==
  /\ pc = "done" /\ NumProviders = 2
  /\ \E k \in CallsOf("create_stedi_provider", 0) :
       ~events[k].res.success /\ events[k].res.error = "invalid request"
  /\ CallsOf("create_stedi_enrollment", 1) # {}

\* C3: if findExistingProvider returns an id for a record, createProvider is
\* never invoked for that record, createEnrollment (when invoked) is given
\* exactly that id, and the record's row has provider status Found.
C3_FoundProviderIsReused ==
  \A k \in 1..Len(events) :
    (IsCall(k, "find_existing_provider") /\ Truthy(events[k].res)) =>
      LET idx == events[k].i IN
      /\ CallsOf("create_stedi_provider", idx) = {}
      /\ \A c \in CallsOf("create_stedi_enrollment", idx) :
           events[c].arg[2] = events[k].res
      /\ HasRow(idx) => RowOf(idx)[3] = "Found"
      /\ pc = "done" => HasRow(idx)

\* the first record was created (id P2), the second was found (id P1) and
\* enrolled with the found id, and the run is complete
C3_Witness ==
  /\ pc = "done" /\ NumProviders = 2
  /\ \E k \in CallsOf("create_stedi_provider", 0) : events[k].res.id = "P2"
  /\ \E k \in CallsOf("find_existing_provider", 1) : events[k].res = "P1"
  /\ \E c \in CallsOf("create_stedi_enrollment", 1) : events[c].arg[2] = "P1"
  /\ summary_data[2][3] = "Found"

\* C4: if findExistingEnrollment returns true for a record, createEnrollment
\* is never invoked for it and its row has enrollment status
\* "Skipped (Exists)" and details "N/A".
C4_ExistingEnrollmentIsSkipped ==
  \A k \in 1..Len(events) :
    (IsCall(k, "find_existing_enrollment") /\ events[k].res = TRUE) =>
      LET idx == events[k].i IN
      /\ CallsOf("create_stedi_enrollment", idx) = {}
      /\ HasRow(idx)
      /\ RowOf(idx)[4] = "Skipped (Exists)"
      /\ RowOf(idx)[5] = "N/A"

\* the first record was enrolled, the second found an existing enrollment
C4_Witness ==
  /\ pc = "done" /\ NumProviders = 2
  /\ summary_data[1][4] = "Submitted"
  /\ \E k \in CallsOf("find_existing_enrollment", 1) : events[k].res = TRUE
  /\ summary_data[2][4] = "Skipped (Exists)"


\* C5: the run never aborts early: whatever the remote outcomes of a record,
\* every later record is still processed (its provider lookup is issued),
\* and the run ends only after all records have been processed.
C5_NoEarlyAbort ==
  pc \in {"done", "crashed"} =>
    \A idx \in 0..(NumProviders - 1) : CallsOf("find_existing_provider", idx) # {}

\* the record the flags of request_failed belong to: i has already advanced
\* when the iteration is over
CurrentIdx == IF pc \in {"find_provider", "done"} THEN i - 1 ELSE i

\* C6: lookups fail open: a failed provider lookup is followed by
\* createProvider for the same record, a failed enrollment lookup by
\* createEnrollment for the same record, and the row of such a record shows
\* only the outcome of the creation that followed.
C6_LookupsFailOpen ==
  LET idx == CurrentIdx IN
  /\ "find_existing_provider" \in request_failed =>
       /\ pc = "create_provider" \/ CallsOf("create_stedi_provider", idx) # {}
       /\ HasRow(idx) =>
            \E c \in CallsOf("create_stedi_provider", idx) :
              IF events[c].res.success
                THEN RowOf(idx)[3] = "Created"
                ELSE RowOf(idx)[3] = "Error" /\ RowOf(idx)[5] = events[c].res.error
  /\ "find_existing_enrollment" \in request_failed =>
       /\ pc = "create_enrollment" \/ CallsOf("create_stedi_enrollment", idx) # {}
       /\ HasRow(idx) =>
            \E c \in CallsOf("create_stedi_enrollment", idx) :
              IF events[c].res.success
                THEN RowOf(idx)[4] = "Submitted" /\ RowOf(idx)[5] = events[c].res.id
                ELSE RowOf(idx)[4] = "Error" /\ RowOf(idx)[5] = events[c].res.error

\* both lookups of the second record failed, the provider and the enrollment
\* were created all the same, and the run is complete
C6_Witness ==
  /\ pc = "done" /\ NumProviders = 2
  /\ {"find_existing_provider", "find_existing_enrollment"} \subseteq request_failed
  /\ summary_data[2] = <<providers_to_process[2].name, providers_to_process[2].npi,
                         "Created", "Submitted", "E1">>

\* the rule the parser is specified to apply to one line: the split on
\* comma/semicolon, limited to three fields, yields exactly three fields
\* that are all non-empty after trimming
ThreeNonEmptyFields(line) ==
  LET parts == ReSplit(Strip(line), 2) IN
  Len(parts) = 3 /\ \A j \in 1..3 : Strip(parts[j]) # <<>>
NonBlank(line) == Strip(line) # <<>>
RECURSIVE SelectLines(_, _)
SelectLines(lines, keep) ==
  IF lines = <<>> THEN <<>>
  ELSE (IF keep[1] THEN <<Head(lines)>> ELSE <<>>) \o SelectLines(Tail(lines), Tail(keep))
\* the lines of the typed text that satisfy the specified rule, in order
WellFormedLines ==
  LET ls == Lines(provider_data_input) IN
  SelectLines(ls, [k \in 1..Len(ls) |-> NonBlank(ls[k]) /\ ThreeNonEmptyFields(ls[k])])
\* the non-blank lines that yield no record
MalformedLines ==
  LET ls == Lines(provider_data_input) IN
  SelectLines(ls, [k \in 1..Len(ls) |-> NonBlank(ls[k]) /\ ~LineAccepted(ls[k])])
Parsed == pc \notin {"idle", "rejected"}

\* C7: the parser produces a record for a non-blank line if and only if the
\* line yields exactly three fields that are all non-empty after trimming;
\* the records are those of the well-formed lines, in line order.
C7_RecordIffThreeNonEmptyFields ==
  Parsed =>
    /\ NumProviders = Len(WellFormedLines)
    /\ \A k \in 1..Len(WellFormedLines) :
         k <= NumProviders =>
           providers_to_process[k] = ProviderOf(WellFormedLines[k], tax_id_type)

\* the warnings emitted while the list is parsed, i.e. before the loop
\* reports progress for the first record
ParseWarnings ==
  {k \in 1..Len(events) :
     /\ events[k].type = "ui" /\ events[k].op = "st.warning"
     /\ \A j \in 1..(k - 1) : ~(events[j].type = "ui" /\ events[j].op = "progress")}

\* C8: every malformed non-blank line causes exactly one warning and never
\* reaches the orchestrator.
C8_OneWarningPerMalformedLine ==
  Parsed =>
    /\ Cardinality(ParseWarnings) = Len(MalformedLines)
    /\ NumProviders + Len(MalformedLines)
         = Len(SelectLines(Lines(provider_data_input),
                           [k \in 1..Len(Lines(provider_data_input)) |->
                              NonBlank(Lines(provider_data_input)[k])]))

\* C9: if a required field is empty, or no transaction type is selected, or
\* parsing yields no provider record, no remote call is ever issued and no
\* result row is produced.
C9_PreflightBlocksRun ==
  (\/ api_key = "" \/ payer_id = "" \/ user_email = "" \/ provider_data_input = <<>>
   \/ \E f \in ContactFields : contact_details[f] = ""
   \/ selected_transactions = <<>>
   \/ providers_to_process = <<>>)
  => /\ \A k \in 1..Len(events) : events[k].type # "call"
     /\ summary_data = <<>>

\* the click was handled with every field filled and a parseable list, but
\* with no transaction type selected
C9_Witness ==
  /\ pc = "rejected"
  /\ api_key # "" /\ payer_id # "" /\ user_email # ""
  /\ contact_details = DefaultContact
  /\ selected_transactions = <<>>
  /\ ParseProviders(provider_data_input, tax_id_type) # <<>>

IsProgress(e) == e.type = "ui" /\ e.op = "progress"

\* C10 as stated: the progress report for record n (1-based) is emitted only
\* after record n has been processed and its row appended.
C10_ProgressAfterRow ==
  \A k \in 1..Len(events) :
    IsProgress(events[k]) => Len(summary_data) >= events[k].arg[1]

\* C10 amended: the progress report for record n is emitted before record n
\* is processed: when it is emitted exactly the n-1 rows of the earlier
\* records have been appended and no remote call has been made for record n.
C10_ProgressBeforeProcessing ==
  [][\A k \in (Len(events) + 1)..Len(events') :
       IsProgress(events'[k]) =>
         /\ Len(summary_data) = events'[k].arg[1] - 1
         /\ \A j \in 1..(k - 1) :
              ~(events'[j].type = "call" /\ events'[j].i = events'[k].arg[1] - 1)
         /\ \E j \in (k + 1)..Len(events') :
              /\ events'[j].type = "call" /\ events'[j].op = "find_existing_provider"
              /\ events'[j].i = events'[k].arg[1] - 1]_vars

\* the progress report of the second record has been emitted
C10_Witness ==
  \E k \in 1..Len(events) :
    /\ IsProgress(events[k]) /\ events[k].arg[1] = 2
    /\ Len(summary_data) >= 1


Operations ==
  {"find_existing_provider", "create_stedi_provider",
   "find_existing_enrollment", "create_stedi_enrollment"}
\* record idx has been taken up by the loop (its lookup has been issued)
Started(idx) == idx < i \/ (idx = i /\ pc \notin {"idle", "find_provider"})

ResolvedId(idx) ==
  LET f == CHOOSE k \in CallsOf("find_existing_provider", idx) : TRUE IN
  IF Truthy(events[f].res) THEN events[f].res
  ELSE LET c == CHOOSE k \in CallsOf("create_stedi_provider", idx) : TRUE IN events[c].res.id

\* C12: createEnrollment is invoked with the provider identifier resolved
\* for the same record (found or newly created); on success the row has
\* enrollment status Submitted and the new enrollment identifier as details,
\* on failure Error and the error message, and the provider status (Found or
\* Created) is kept.
C12_EnrollmentCreation ==
  \A k \in 1..Len(events) :
    IsCall(k, "create_stedi_enrollment") =>
      LET idx == events[k].i
          f == CHOOSE j \in CallsOf("find_existing_provider", idx) : TRUE
      IN /\ CallsOf("find_existing_provider", idx) # {}
         /\ events[k].arg[2] = ResolvedId(idx)
         /\ Truthy(events[k].arg[2])
         /\ \E j \in CallsOf("find_existing_enrollment", idx) :
              j < k /\ events[j].res = FALSE
         /\ HasRow(idx)
         /\ RowOf(idx)[3] = (IF Truthy(events[f].res) THEN "Found" ELSE "Created")
         /\ IF events[k].res.success
              THEN RowOf(idx)[4] = "Submitted" /\ RowOf(idx)[5] = events[k].res.id
              ELSE RowOf(idx)[4] = "Error" /\ RowOf(idx)[5] = events[k].res.error

\* the first record was found (P1) and enrolled (E1), the second was created
\* (P2) and its enrollment failed with the raw response text
C12_Witness ==
  /\ pc = "done" /\ NumProviders = 2
  /\ summary_data[1][3] = "Found" /\ summary_data[1][4] = "Submitted"
  /\ summary_data[1][5] = "E1"
  /\ \E c \in CallsOf("create_stedi_enrollment", 0) : events[c].arg[2] = "P1"
  /\ summary_data[2][3] = "Created" /\ summary_data[2][4] = "Error"
  /\ summary_data[2][5] = "raw error body"
  /\ \E c \in CallsOf("create_stedi_enrollment", 1) : events[c].arg[2] = "P2"


NewEvents == (Len(events) + 1)..Len(events')

\* C15: processing is strictly sequential: a remote call for record idx is
\* made only when the rows of exactly the idx earlier records have been
\* appended (so after every call and the row of record idx-1 and before the
\* row of record idx), and the record indices of the calls never decrease.
C15_StrictlySequential ==
  [][/\ \A k \in NewEvents :
          events'[k].type = "call" => Len(summary_data) = events'[k].i
     /\ \A j \in 1..Len(events'), k \in 1..Len(events') :
          (j < k /\ events'[j].type = "call" /\ events'[k].type = "call")
            => events'[j].i <= events'[k].i]_vars

\* a completed two-record run with four calls for the first record and two
\* for the second
C15_Witness ==
  /\ pc = "done" /\ NumProviders = 2
  /\ \A op \in Operations : CallsOf(op, 0) # {}
  /\ CallsOf("find_existing_provider", 1) # {}
  /\ CallsOf("find_existing_enrollment", 1) # {}

ProviderStatuses == {"Found", "Created", "Error"}
EnrollmentStatuses == {"Submitted", "Skipped (Exists)", "Error", "Skipped"}

\* C16: every row has provider status in {Found, Created, Error} and
\* enrollment status in {Submitted, Skipped (Exists), Error, Skipped}, and
\* its enrollment status is Skipped exactly when its provider status is Error.
C16_RowStatuses ==
  \A k \in 1..Len(summary_data) :
    /\ summary_data[k][3] \in ProviderStatuses
    /\ summary_data[k][4] \in EnrollmentStatuses
    /\ summary_data[k][4] = "Skipped" <=> summary_data[k][3] = "Error"

\* a completed run with a row of an enrolled found provider and a row
\* (Error, Skipped) of a failed provider creation
C16_Witness ==
  /\ pc = "done" /\ NumProviders = 2
  /\ summary_data[1][3] = "Found" /\ summary_data[1][4] = "Submitted"
  /\ summary_data[2][3] = "Error" /\ summary_data[2][4] = "Skipped"

\* C17: every row with provider status Found or Created carries an
\* enrollment status and details computed by that record's own enrollment
\* lookup or enrollment creation, also when createProvider succeeds without
\* an identifier in its response; nothing is left over from an earlier record.
C17_RowFromOwnEnrollmentStep ==
  \A idx \in 0..(Len(summary_data) - 1) :
    RowOf(idx)[3] \in {"Found", "Created"} =>
      \/ /\ RowOf(idx)[4] = "Skipped (Exists)" /\ RowOf(idx)[5] = "N/A"
         /\ \E k \in CallsOf("find_existing_enrollment", idx) : events[k].res = TRUE
      \/ \E k \in CallsOf("create_stedi_enrollment", idx) :
           IF events[k].res.success
             THEN RowOf(idx)[4] = "Submitted" /\ RowOf(idx)[5] = events[k].res.id
             ELSE RowOf(idx)[4] = "Error" /\ RowOf(idx)[5] = events[k].res.error


IsHttp(k, ops) == events[k].type = "http" /\ events[k].op \in ops

C14_FirstResultExactMatch ==
  \A k \in 1..Len(events) :
    IsHttp(k, {"find_existing_provider"}) =>
      LET r == events[k].response
          npi == events[k].arg
          res == events[k].res
          hit == r.ok /\ r.items # <<>> /\ r.items[1].npi = npi
      IN /\ hit => res = r.items[1].id
         /\ ~hit => res = NoneV

\* the first result has another NPI (one the queried NPI is a prefix of),
\* the second result matches exactly, and absent is returned
C14_Witness ==
  /\ pc = "returned"
  /\ IsHttp(1, {"find_existing_provider"})
  /\ events[1].arg = <<"1">>
  /\ Len(events[1].response.items) = 2
  /\ events[1].response.items[1] = [id |-> "P1", npi |-> <<"1", "2">>]
  /\ events[1].response.items[2] = [id |-> "P2", npi |-> <<"1">>]
  /\ events[1].res = NoneV

\* ================================================================ a faithful service
\* The client functions of lines 10-95 against a service that keeps state:
\* GET /providers and GET /enrollments never fail and answer from what the
\* service holds, a successful POST /providers registers the NPI of its
\* payload and a successful POST /enrollments enrolls the provider named by
\* its payload with the payer of its payload.

\* the NPIs the sample lines can produce
ServiceNpis == {ProviderOf(l, "EIN").npi : l \in {l \in SampleLines : LineAccepted(l)}}

\* the id under which the service keeps the provider of an NPI (one per NPI)
ServiceId(npi) == IF npi = <<>> THEN "P0" ELSE "P1"
Registered(id) == {n \in remote.providers : ServiceId(n) = id}

\* what the service may hold before the first run
RemoteStates ==
  UNION {{[providers |-> ps, enrollments |-> {<<n, "PAYER">> : n \in es}]
            : es \in SUBSET ps} : ps \in SUBSET ServiceNpis}

\* GET /providers?filter=npi (lines 13-19): the exact match first when the NPI
\* is registered, then possibly a provider of another NPI
FaithfulProviderSearch(npi) ==
  LET other == [id |-> "P9", npi |-> OtherNpi]
      exact == [id |-> ServiceId(npi), npi |-> npi]
  IN IF npi \in remote.providers
       THEN {[ok |-> TRUE, items |-> its] : its \in {<<exact>>, <<exact, other>>}}
       ELSE {[ok |-> TRUE, items |-> its] : its \in {<<>>, <<other>>}}

\* GET /enrollments?providerNpis&payerIds (lines 56-62)
FaithfulEnrollmentSearch(npi, payer) ==
  {[ok |-> TRUE,
    items |-> IF <<npi, payer>> \in remote.enrollments THEN <<"enrollment">> ELSE <<>>]}

\* POST /providers (lines 30-42): 2xx carries the service's id or no "id" key
FaithfulProviderPost(npi) == PostResponses({ServiceId(npi)})

\* POST /enrollments (lines 70-86): 2xx only for a provider the service knows
FaithfulEnrollmentPost(pid) ==
  {r \in PostResponses(EnrollmentIds) : r.ok => Registered(pid) # {}}

FaithfulInit == InitScript /\ remote \in RemoteStates /\ run = "first"

\* lines 145-158 with the form filled in
FaithfulStart ==
  /\ pc = "idle"
  /\ \E txt \in Texts :
       StartWith("key", "PAYER", "me@example.com", DefaultContact, Selected({1}), txt, "EIN")
  /\ UNCHANGED <<i, provider_id, provider_status, enrollment_status, details,
                 summary_data, request_failed, world>>

FaithfulFindProvider ==
  /\ pc = "find_provider"
  /\ \E resp \in FaithfulProviderSearch(Provider.npi) : FindProviderWith(resp)
  /\ UNCHANGED world

FaithfulCreateProvider ==
  /\ pc = "create_provider"
  /\ \E resp \in FaithfulProviderPost(Provider.npi) :
       /\ CreateProviderWith(resp)
       /\ remote' = IF resp.ok
                      THEN [remote EXCEPT !.providers = @ \cup {Provider.npi}]
                      ELSE remote
  /\ UNCHANGED run

FaithfulFindEnrollment ==
  /\ pc = "find_enrollment"
  /\ \E resp \in FaithfulEnrollmentSearch(Provider.npi, payer_id) : FindEnrollmentWith(resp)
  /\ UNCHANGED world

FaithfulCreateEnrollment ==
  /\ pc = "create_enrollment"
  /\ \E resp \in FaithfulEnrollmentPost(provider_id) :
       /\ CreateEnrollmentWith(resp)
       /\ remote' = IF resp.ok
                      THEN [remote EXCEPT !.enrollments =
                              @ \cup {<<n, payer_id>> : n \in Registered(provider_id)}]
                      ELSE remote
  /\ UNCHANGED run

\* every record's own enrollment step succeeded: its lookup found an
\* enrollment or its createEnrollment returned success
RecordSucceeded(idx) ==
  \/ \E k \in CallsOf("find_existing_enrollment", idx) : events[k].res = TRUE
  \/ \E k \in CallsOf("create_stedi_enrollment", idx) : events[k].res.success
AllRecordsSucceeded ==
  pc = "done" /\ \A idx \in 0..(NumProviders - 1) : RecordSucceeded(idx)

\* the button is clicked again on the same form after a completed run: the
\* script runs afresh (lines 145-158) against what the service now holds
Rerun ==
  /\ pc = "done" /\ run = "first"
  /\ StartWith(api_key, payer_id, user_email, contact_details, selected_transactions,
               provider_data_input, tax_id_type)
  /\ i' = 0
  /\ provider_id' = Unbound /\ provider_status' = Unbound
  /\ enrollment_status' = Unbound /\ details' = Unbound
  /\ summary_data' = <<>>
  /\ request_failed' = {}
  /\ run' = IF AllRecordsSucceeded THEN "rerun_after_success" ELSE "rerun"
  /\ UNCHANGED remote

FaithfulNext ==
  \/ FaithfulStart
  \/ FaithfulFindProvider
  \/ FaithfulCreateProvider
  \/ FaithfulFindEnrollment
  \/ FaithfulCreateEnrollment
  \/ Rerun

FaithfulSpec == FaithfulInit /\ [][FaithfulNext]_vars

\* the mutations the step issues against what the service held before it
NoDuplicateMutation ==
  \A k \in NewEvents :
    /\ (events'[k].type = "call" /\ events'[k].op = "create_stedi_provider")
         => events'[k].arg[2].npi \notin remote.providers
    /\ (events'[k].type = "call" /\ events'[k].op = "create_stedi_enrollment")
         => /\ <<providers_to_process[events'[k].i + 1].npi, events'[k].arg[3]>>
                  \notin remote.enrollments
            /\ \A n \in Registered(events'[k].arg[2]) :
                 <<n, events'[k].arg[3]>> \notin remote.enrollments
RerunIsIdle ==
  run = "rerun_after_success" =>
    /\ pc \in {"find_provider", "find_enrollment", "done"}
    /\ \A k \in 1..Len(events) :
         ~IsCall(k, "create_stedi_provider") /\ ~IsCall(k, "create_stedi_enrollment")
    /\ \A idx \in 0..(Len(summary_data) - 1) :
         /\ RowOf(idx)[3] = "Found"
         /\ RowOf(idx)[4] = "Skipped (Exists)"
         /\ RowOf(idx)[5] = "N/A"
    /\ pc = "done" => Len(summary_data) = NumProviders

\* C18: against a service whose lookups never fail and reflect every earlier
\* successful creation (exact-NPI match first), no createProvider is issued
\* for an NPI the service already holds and no createEnrollment for an
\* (NPI, payer) pair already enrolled, an NPI repeated within the batch
\* included; and the re-run of a batch whose every record succeeded issues
\* no mutation and yields only rows (Found, Skipped (Exists), N/A), one per
\* record.
C18_FaithfulServiceNoDuplicates ==
  [][NoDuplicateMutation]_vars /\ []RerunIsIdle

\* a two-record batch repeating one NPI has been re-run to completion after
\* a first run in which both records succeeded
C18_Witness ==
  /\ run = "rerun_after_success" /\ pc = "done"
  /\ Len(summary_data) = 2
  /\ providers_to_process[1].npi = providers_to_process[2].npi
  /\ providers_to_process[1].npi \in remote.providers

====
